---- MODULE Spec2Model ----
(***************************************************************************)
(* Model of app.py (medimate): the symptom taxonomy, the disease profiles, *)
(* calculate_probability and the Streamlit script's session-state update.  *)
(*                                                                         *)
(* Probabilities are Python floats (IEEE-754 binary64).  Float addition is *)
(* not associative, and the order in which calculate_probability adds the  *)
(* weights is the iteration order of a Python set of strings, which the    *)
(* language leaves unspecified (it varies with the hash seed and with the  *)
(* set's history).  The arithmetic is therefore modelled bit-exactly, with *)
(* round-to-nearest-even, and the iteration order is a nondeterministic    *)
(* choice.                                                                 *)
(***************************************************************************)
EXTENDS Integers, Sequences, FiniteSets

(***************************************************************************)
(* Natural numbers of up to about 70 bits, as three limbs <<hi, mid, lo>>  *)
(* in base 2^20 (TLC's integers have 32 bits; a binary64 significand has   *)
(* 53).                                                                    *)
(***************************************************************************)
Base == 2^20

BNorm(h, m, l) ==
    LET m2 == m + (l \div Base)
    IN  <<h + (m2 \div Base), m2 % Base, l % Base>>

BOne == <<0, 0, 1>>

BZero == <<0, 0, 0>>

BAdd(x, y) == BNorm(x[1] + y[1], x[2] + y[2], x[3] + y[3])

\* x - y, for x >= y
BSub(x, y) == BNorm(x[1] - y[1] - 1, x[2] - y[2] + Base - 1, x[3] - y[3] + Base)

BMulSmall(x, k) == BNorm(x[1] * k, x[2] * k, x[3] * k)

BDouble(x) == BMulSmall(x, 2)

BHalf(x) ==
    << x[1] \div 2,
       (x[2] + (x[1] % 2) * Base) \div 2,
       (x[3] + (x[2] % 2) * Base) \div 2 >>

BOdd(x) == x[3] % 2 = 1

BLess(x, y) ==
    \/ x[1] < y[1]
    \/ x[1] = y[1] /\ x[2] < y[2]
    \/ x[1] = y[1] /\ x[2] = y[2] /\ x[3] < y[3]

(***************************************************************************)
(* A Python float is [m, e], the value m * 2^e with 2^52 <= m < 2^53, or   *)
(* FZero.  Only non-negative finite values occur in app.py.                *)
(***************************************************************************)
Two52 == <<2^12, 0, 0>>

Two53 == <<2^13, 0, 0>>

FZero == [m |-> BZero, e |-> 0]

\* One step of normalisation: shift left by k bits (k <= 8) when that keeps
\* the significand below 2^53.
Up(f, k) ==
    IF BLess(BMulSmall(f.m, 2^k), Two53)
    THEN [m |-> BMulSmall(f.m, 2^k), e |-> f.e - k]
    ELSE f

\* m * 2^e with 0 < m < 2^53, normalised (exact)
Normalize(m, e) ==
    Up(Up(Up(Up(Up(Up(Up(Up(Up([m |-> m, e |-> e], 8), 8), 8), 8), 8), 8), 4), 2), 1)

\* Drop the lowest bit of s.m while s.m >= 2^54, remembering in s.sticky
\* whether a 1 was dropped.
Down(s) ==
    IF BLess(s.m, BDouble(Two53)) THEN s
    ELSE [m |-> BHalf(s.m), e |-> s.e + 1, sticky |-> s.sticky \/ BOdd(s.m)]

\* The significand r of the rounded value, one bit shorter than s.m
Rounded(s, r) ==
    IF r = Two53 THEN [m |-> Two52, e |-> s.e + 2] ELSE [m |-> r, e |-> s.e + 1]

\* s.m has 54 bits: drop the lowest, rounding to nearest, ties to even
RoundHalf(s, half) ==
    Rounded(s, IF BOdd(s.m) /\ (s.sticky \/ BOdd(half)) THEN BAdd(half, BOne) ELSE half)

\* s.m has 53 or 54 bits
RoundLast(s) ==
    IF BLess(s.m, Two53) THEN [m |-> s.m, e |-> s.e] ELSE RoundHalf(s, BHalf(s.m))

\* The float nearest to m * 2^e (+ a little more when sticky), ties to even;
\* 2^52 <= m < 2^60.
RoundNearestEven(m, e, sticky) ==
    RoundLast(Down(Down(Down(Down(Down(Down([m |-> m, e |-> e, sticky |-> sticky])))))))

\* float(n) for an int 0 <= n < 2^20
FromInt(n) == IF n = 0 THEN FZero ELSE Normalize(<<0, 0, n>>, 0)

\* s.m shifted right by k bits, 0 <= k <= 10; s.sticky remembers a dropped 1
Shr(s, k) ==
    [m |-> << s.m[1] \div 2^k,
              (s.m[2] + (s.m[1] % 2^k) * Base) \div 2^k,
              (s.m[3] + (s.m[2] % 2^k) * Base) \div 2^k >>,
     sticky |-> s.sticky \/ s.m[3] % 2^k # 0]

\* s shifted right by 10 bits when d >= limit
ShrIf(s, d, limit) == IF d >= limit THEN Shr(s, 10) ELSE s

\* m shifted right by d bits, 0 <= d < 60
ShiftRightSticky(m, d) ==
    Shr(ShrIf(ShrIf(ShrIf(ShrIf(ShrIf([m |-> m, sticky |-> FALSE],
                                      d, 10), d, 20), d, 30), d, 40), d, 50),
        d % 10)

\* hi + sh, with sh aligned to hi and both carrying two guard bits
AddAligned(hi, sh) ==
    RoundNearestEven(BAdd(BMulSmall(hi.m, 4), sh.m), hi.e - 2, sh.sticky)

\* hi + lo, for hi.e >= lo.e
AddOrdered(hi, lo) ==
    AddAligned(hi, ShiftRightSticky(BMulSmall(lo.m, 4),
                                    IF hi.e - lo.e > 56 THEN 56 ELSE hi.e - lo.e))

\* x + y
FAdd(x, y) ==
    IF x.m = BZero THEN y
    ELSE IF y.m = BZero THEN x
    ELSE IF x.e >= y.e THEN AddOrdered(x, y) ELSE AddOrdered(y, x)

\* One more bit of the long division by d; s = [q, r] is the quotient so far
\* and the remainder.
Div1(s, d) ==
    LET r2 == BDouble(s.r)
    IN  IF BLess(r2, d) THEN [q |-> BDouble(s.q), r |-> r2]
        ELSE [q |-> BAdd(BDouble(s.q), BOne), r |-> BSub(r2, d)]

\* The next hexadecimal digit of the quotient: the number of k in 1..15 with
\* k * d <= r16, where r16 is 16 times the remainder.
HexDigit(r16, d) == Cardinality({k \in 1..15 : ~BLess(r16, BMulSmall(d, k))})

Div4Digit(s, d, r16, digit) ==
    [q |-> BAdd(BMulSmall(s.q, 16), <<0, 0, digit>>),
     r |-> BSub(r16, BMulSmall(d, digit))]

\* Four more bits of the long division at once
Div4(s, d) ==
    IF s.r = BZero THEN [q |-> BMulSmall(s.q, 16), r |-> BZero]
    ELSE Div4Digit(s, d, BMulSmall(s.r, 16), HexDigit(BMulSmall(s.r, 16), d))

Div12(s, d) == Div4(Div4(Div4(s, d), d), d)

Div52(s, d) == Div4(Div12(Div12(Div12(Div12(s, d), d), d), d), d)

\* The float with significand q (53 bits, or 2^53 after rounding up)
DivResult(q, e) ==
    IF q = Two53 THEN [m |-> Two52, e |-> e + 1] ELSE [m |-> q, e |-> e]

\* qr.q is the quotient to 53 bits and qr.r the remainder: round to nearest,
\* ties to even
DivRound(qr, d, e) ==
    DivResult(IF BLess(d, BDouble(qr.r)) \/ (BDouble(qr.r) = d /\ BOdd(qr.q))
              THEN BAdd(qr.q, BOne) ELSE qr.q,
              e)

\* x / y, for y > 0
FDiv(x, y) ==
    IF x.m = BZero THEN FZero
    ELSE IF ~BLess(x.m, y.m)
         THEN DivRound(Div52([q |-> BOne, r |-> BSub(x.m, y.m)], y.m),
                       y.m, x.e - y.e - 52)
         ELSE DivRound(Div1(Div52([q |-> BZero, r |-> x.m], y.m), y.m),
                       y.m, x.e - y.e - 53)

\* x * k for an int 1 <= k <= 128 (k is exactly a float)
FMulInt(x, k) ==
    IF x.m = BZero THEN FZero ELSE RoundNearestEven(BMulSmall(x.m, k), x.e, FALSE)

FLess(x, y) ==
    IF y.m = BZero THEN FALSE
    ELSE IF x.m = BZero THEN TRUE
    ELSE x.e < y.e \/ (x.e = y.e /\ BLess(x.m, y.m))

FLeq(x, y) == ~FLess(y, x)

\* The float a decimal literal n/100 denotes: the nearest float to n/100.
Literal(hundredths) == FDiv(FromInt(hundredths), FromInt(100))


(***************************************************************************)
(* The data model (app.py lines 6-30).  A dict is a sequence in insertion  *)
(* order; a weight is written in hundredths, as in the source's literals.  *)
(***************************************************************************)
BODY_PART_KEYS ==
    <<"Head/Neck", "Chest/Back", "Abdomen/Pelvis", "Joints/Limbs", "Systemic">>

\* BODY_PART_SYMPTOMS with "Joint stiffness" listed under "Joints/Limbs"
BODY_PART_SYMPTOMS_backfilled ==
    [part \in {BODY_PART_KEYS[i] : i \in 1..Len(BODY_PART_KEYS)} |->
       CASE part = "Head/Neck" ->
              <<"Severe headache", "Dizziness", "Blurred vision",
                "Facial numbness", "Sore throat">>
         [] part = "Chest/Back" ->
              <<"Shortness of breath", "Chest pain", "Persistent cough",
                "Heart palpitations", "Upper back pain">>
         [] part = "Abdomen/Pelvis" ->
              <<"Sharp stomach pain", "Nausea/Vomiting", "Diarrhea",
                "Constipation", "Bloating", "Pelvic pain">>
         [] part = "Joints/Limbs" ->
              <<"Joint swelling", "Joint stiffness", "Muscle weakness",
                "Numbness in limbs", "Severe cramping", "Foot tingling">>
         [] part = "Systemic" ->
              <<"Fever", "Fatigue", "Unexplained weight loss", "Night sweats">>]

BODY_PART_SYMPTOMS ==
    [part \in {BODY_PART_KEYS[i] : i \in 1..Len(BODY_PART_KEYS)} |->
       CASE part = "Head/Neck" ->
              <<"Severe headache", "Dizziness", "Blurred vision",
                "Facial numbness", "Sore throat">>
         [] part = "Chest/Back" ->
              <<"Shortness of breath", "Chest pain", "Persistent cough",
                "Heart palpitations", "Upper back pain">>
         [] part = "Abdomen/Pelvis" ->
              <<"Sharp stomach pain", "Nausea/Vomiting", "Diarrhea",
                "Constipation", "Bloating", "Pelvic pain">>
         [] part = "Joints/Limbs" ->
              <<"Joint swelling", "Muscle weakness", "Numbness in limbs",
                "Severe cramping", "Foot tingling">>
         [] part = "Systemic" ->
              <<"Fever", "Fatigue", "Unexplained weight loss", "Night sweats">>]

DISEASE_PROFILES ==
    << [Disease |-> "Migraine",
        symptom_weights |-> << <<"Severe headache", 95>>, <<"Blurred vision", 60>>,
                               <<"Dizziness", 40>> >>],
       [Disease |-> "Pneumonia",
        symptom_weights |-> << <<"Persistent cough", 90>>, <<"Shortness of breath", 80>>,
                               <<"Fever", 70>> >>],
       [Disease |-> "Irritable Bowel Syndrome (IBS)",
        symptom_weights |-> << <<"Sharp stomach pain", 70>>, <<"Bloating", 90>>,
                               <<"Constipation", 50>> >>],
       [Disease |-> "Anxiety Disorder",
        symptom_weights |-> << <<"Heart palpitations", 80>>, <<"Shortness of breath", 50>>,
                               <<"Dizziness", 50>>, <<"Fatigue", 60>> >>],
       [Disease |-> "Rheumatoid Arthritis",
        symptom_weights |-> << <<"Joint swelling", 90>>, <<"Joint stiffness", 80>>,
                               <<"Fatigue", 50>> >>] >>

Range(s) == {s[i] : i \in 1..Len(s)}

\* symptom_weights.keys()
Keys(symptom_weights) == {symptom_weights[i][1] : i \in 1..Len(symptom_weights)}

\* symptom_weights[symptom], for a symptom among the keys
WeightOf(symptom_weights, symptom) ==
    Literal(symptom_weights[CHOOSE i \in 1..Len(symptom_weights) :
                                symptom_weights[i][1] = symptom][2])

(***************************************************************************)
(* calculate_probability (lines 33-63)                                     *)
(***************************************************************************)
\* "* 100" (line 54)
Scale == 100

\* min(probability, 100) (line 55)
Cap == 100

\* df['Probability'] > 5 (line 61)
Threshold == 5

\* .head(5) (line 61)
TopN == 5

\* Lines 41, 49-50: the weights added up in the dict's own order.
max_possible_score(symptom_weights) ==
    LET acc[i \in 0..Len(symptom_weights)] ==
            IF i = 0 THEN FromInt(0)
            ELSE FAdd(acc[i - 1], Literal(symptom_weights[i][2]))
    IN  acc[Len(symptom_weights)]

\* match_score with "=" for "+=": the weight met last
match_score_assign(order, symptom_weights) ==
    LET acc[i \in 0..Len(order)] ==
            IF i = 0 THEN FromInt(0)
            ELSE IF order[i] \in Keys(symptom_weights)
                 THEN WeightOf(symptom_weights, order[i])
                 ELSE acc[i - 1]
    IN  acc[Len(order)]

\* Lines 40, 44-46: the weights of the selected symptoms the profile has,
\* added up in the order in which the loop meets them (order is a sequence).
match_score(order, symptom_weights) ==
    LET acc[i \in 0..Len(order)] ==
            IF i = 0 THEN FromInt(0)
            ELSE IF order[i] \in Keys(symptom_weights)
                 THEN FAdd(acc[i - 1], WeightOf(symptom_weights, order[i]))
                 ELSE acc[i - 1]
    IN  acc[Len(order)]

\* Line 54
probability(score, max_score) == FMulInt(FDiv(score, max_score), Scale)

\* The int literals 100 and 5, as the floats they are compared with
CapFloat == FromInt(Cap)

ThresholdFloat == FromInt(Threshold)

\* Capped without the min
Capped_missing(p) == p

\* Line 55: min(probability, 100)
Capped(p) == IF FLess(CapFloat, p) THEN CapFloat ELSE p

\* The orders in which "for symptom in selected_symptoms" can meet the
\* elements of a set S.
IterationOrders(S) ==
    {o \in [1..Cardinality(S) -> S] :
        \A i, j \in 1..Cardinality(S) : i # j => o[i] # o[j]}

(***************************************************************************)
(* Probabilities[<<n, T>>]: the values results[disease] can take for the n-th  *)
(* disease when T is the set of selected symptoms its profile has.  The    *)
(* loop skips every other selected symptom (line 45), so match_score       *)
(* depends on the iteration order only through the order of T.  Each       *)
(* disease's order is chosen on its own: two profiles share at most one    *)
(* symptom and the sharing has no cycle, so every combination of           *)
(* per-profile orders is the restriction of one order of the whole set.    *)
(***************************************************************************)
Probabilities ==
    [x \in UNION {{<<n, T>> : T \in SUBSET Keys(DISEASE_PROFILES[n].symptom_weights)} :
                     n \in 1..Len(DISEASE_PROFILES)} |->
       {Capped(probability(match_score(o, DISEASE_PROFILES[x[1]].symptom_weights),
                           max_possible_score(DISEASE_PROFILES[x[1]].symptom_weights))) :
          o \in IterationOrders(x[2])}]

MaxScores ==
    [n \in 1..Len(DISEASE_PROFILES) |->
       max_possible_score(DISEASE_PROFILES[n].symptom_weights)]

\* Lines 38-55: the values the results dict can have after the first n
\* diseases; a dict is the sequence of its items.
RECURSIVE results_upto(_, _)
results_upto(selected, n) ==
    IF n = 0 THEN {<<>>}
    ELSE IF FLess(FZero, MaxScores[n])
         THEN {Append(r, [Disease |-> DISEASE_PROFILES[n].Disease, Probability |-> p]) :
                 r \in results_upto(selected, n - 1),
                 p \in Probabilities[<<n, selected \cap Keys(DISEASE_PROFILES[n].symptom_weights)>>]}
         ELSE results_upto(selected, n - 1)

\* Line 59: sort_values(by='Probability', ascending=False).  The frame has
\* five rows, which numpy sorts by insertion, so rows of equal probability
\* keep the order they have in results.
RECURSIVE sort_values(_)
sort_values(rows) ==
    IF rows = <<>> THEN <<>>
    ELSE LET rest == sort_values(Tail(rows))
             k    == Cardinality({j \in 1..Len(rest) :
                         FLess(Head(rows).Probability, rest[j].Probability)})
         IN  SubSeq(rest, 1, k) \o <<Head(rows)>> \o SubSeq(rest, k + 1, Len(rest))

\* filter_low without the filter
filter_low_missing(rows) == rows

\* filter_low with the comparison turned round
filter_low_reversed(rows) ==
    SelectSeq(rows, LAMBDA r : FLess(r.Probability, ThresholdFloat))

\* Line 61: df[df['Probability'] > 5]
filter_low(rows) == SelectSeq(rows, LAMBDA r : FLess(ThresholdFloat, r.Probability))

\* Line 61: .head(5)
head(rows, n) == SubSeq(rows, 1, IF Len(rows) < n THEN Len(rows) ELSE n)

\* Lines 38-63: what the function computes when it does not return early.
score_all(selected) ==
    {[results |-> r, df |-> head(filter_low(sort_values(r)), TopN)] :
        r \in results_upto(selected, Len(DISEASE_PROFILES))}

\* Lines 33-63: the outcomes of one call; results is <<>> when the function
\* returns at line 36.
calculate_probability(selected) ==
    IF selected = {} THEN {[results |-> <<>>, df |-> <<>>]}
    ELSE score_all(selected)

(***************************************************************************)
(* The Streamlit script (lines 73-147).  Every user interaction runs the   *)
(* script from top to bottom once; st.session_state survives the runs.     *)
(***************************************************************************)
VARIABLES
    selected_symptoms,   \* st.session_state['selected_symptoms'], or the argument of a call
    current_part,        \* st.session_state['current_part'], or the argument of a lookup
    symptoms_for_part,   \* line 110
    new_selections,      \* line 113, as a set
    results,             \* line 38: the dict of the last call of calculate_probability
    prediction_df,       \* line 141: what the last call returned
    raised,              \* the exception the last operation raised, or "none"
    called               \* the operation that ran last

vars == <<selected_symptoms, current_part, symptoms_for_part, new_selections,
          results, prediction_df, raised, called>>

\* The largest selection the user builds.
MaxSelected == 4

\* The largest set calculate_probability is called with directly.
MaxInput == 6

\* get_symptoms as the subscript BODY_PART_SYMPTOMS[part]
get_symptoms_subscript(part) ==
    IF part \in DOMAIN BODY_PART_SYMPTOMS
    THEN [raised |-> "none", value |-> BODY_PART_SYMPTOMS[part]]
    ELSE [raised |-> "KeyError", value |-> <<>>]

\* Line 110: BODY_PART_SYMPTOMS.get(part, [])
get_symptoms(part) ==
    IF part \in DOMAIN BODY_PART_SYMPTOMS
    THEN [raised |-> "none", value |-> BODY_PART_SYMPTOMS[part]]
    ELSE [raised |-> "none", value |-> <<>>]

\* update_selection without the difference_update of line 122
update_selection_add_only(selected, options, choices) == selected \cup choices

\* Lines 122 and 124: difference_update, then update
update_selection(selected, options, choices) ==
    (selected \ (options \ choices)) \cup choices

\* Line 116: the default of the multiselect, which is what it returns as long
\* as the user has not touched it.
default_selections(selected, options) == selected \cap options

\* What the multiselect can return after one interaction: one option more,
\* one option fewer, or none (the clear button).
multiselect(options, default) ==
    {default \cup {s} : s \in options \ default}
        \cup {default \ {s} : s \in default}
        \cup {{}}

\* Lines 73-77 and the first run of the script: nothing is selected, so
\* line 131 shows the hint and calculate_probability is not called.
Init ==
    /\ selected_symptoms = {}
    /\ current_part = BODY_PART_KEYS[1]
    /\ symptoms_for_part = get_symptoms(BODY_PART_KEYS[1]).value
    /\ new_selections = {}
    /\ results = <<>>
    /\ prediction_df = <<>>
    /\ raised = "none"
    /\ called = "script"

\* Lines 126-147 of one run, given the selection the run has arrived at.  A
\* set that the run did not change is iterated as in the run before.
Predict(selected) ==
    IF selected = {}
    THEN results' = <<>> /\ prediction_df' = <<>>
    ELSE IF selected = selected_symptoms /\ results # <<>>
    THEN UNCHANGED <<results, prediction_df>>
    ELSE \E out \in calculate_probability(selected) :
            results' = out.results /\ prediction_df' = out.df

\* One run of the script with the radio at part and the multiselect
\* returning choices.
Rerun(part, choices) ==
    LET options == Range(get_symptoms(part).value)
        selected == update_selection(selected_symptoms, options, choices)
    IN  /\ Cardinality(selected) <= MaxSelected
        /\ current_part' = part
        /\ symptoms_for_part' = get_symptoms(part).value
        /\ new_selections' = choices
        /\ selected_symptoms' = selected
        /\ Predict(selected)
        /\ raised' = "none"
        /\ called' = "script"

\* The user picks a body part (lines 98-104); the multiselect is drawn anew
\* for the part and returns its default.
SelectBodyPart ==
    \E i \in 1..Len(BODY_PART_KEYS) :
        Rerun(BODY_PART_KEYS[i],
              default_selections(selected_symptoms,
                                 Range(get_symptoms(BODY_PART_KEYS[i]).value)))

\* The user changes the multiselect of the part on display (lines 113-118).
ChangeSymptoms ==
    \E choices \in multiselect(Range(symptoms_for_part),
                               default_selections(selected_symptoms,
                                                  Range(symptoms_for_part))) :
        Rerun(current_part, choices)

Next == SelectBodyPart \/ ChangeSymptoms

Spec == Init /\ [][Next]_vars

(***************************************************************************)
(* The two functions on their own, called with arguments that need not     *)
(* come from the script: any set of symptoms, any region name.             *)
(***************************************************************************)
\* Every symptom of a profile, and one that no profile has.
ProfileSymptoms ==
    UNION {Keys(DISEASE_PROFILES[n].symptom_weights) : n \in 1..Len(DISEASE_PROFILES)}

CallSymptoms == ProfileSymptoms \cup {"Foot tingling"}

CallParts == DOMAIN BODY_PART_SYMPTOMS \cup {"Elbow"}

\* calculate_probability(selected); the call leaves its argument as it was.
Call(selected) ==
    /\ Cardinality(selected) <= MaxInput
    /\ selected_symptoms' = selected
    /\ \E out \in calculate_probability(selected) :
          results' = out.results /\ prediction_df' = out.df
    /\ raised' = "none"
    /\ called' = "calculate_probability"
    /\ UNCHANGED <<current_part, symptoms_for_part, new_selections>>

\* A call with one symptom more than the last one.
CallWithMore ==
    \E s \in CallSymptoms \ selected_symptoms : Call(selected_symptoms \cup {s})

\* A call with one symptom fewer than the last one.
CallWithFewer ==
    \E s \in selected_symptoms : Call(selected_symptoms \ {s})

\* A call with another set object that has the same elements.
CallAgain == Call(selected_symptoms)

\* BODY_PART_SYMPTOMS.get(part, []) for any part
Lookup ==
    \E part \in CallParts :
        /\ current_part' = part
        /\ symptoms_for_part' = get_symptoms(part).value
        /\ raised' = get_symptoms(part).raised
        /\ called' = "get"
        /\ UNCHANGED <<selected_symptoms, new_selections, results, prediction_df>>

NextCore == CallWithMore \/ CallWithFewer \/ CallAgain \/ Lookup

SpecCore == Init /\ [][NextCore]_vars

(***************************************************************************)
(* Properties                                                              *)
(***************************************************************************)
\* results[disease] of the last call
Confidence(disease) ==
    results[CHOOSE i \in 1..Len(results) : results[i].Disease = disease].Probability

ProfileOf(disease) ==
    DISEASE_PROFILES[CHOOSE n \in 1..Len(DISEASE_PROFILES) :
                        DISEASE_PROFILES[n].Disease = disease].symptom_weights

Diseases == {DISEASE_PROFILES[n].Disease : n \in 1..Len(DISEASE_PROFILES)}

TaxonomySymptoms == UNION {Range(BODY_PART_SYMPTOMS[part]) : part \in DOMAIN BODY_PART_SYMPTOMS}

Scored == called = "calculate_probability"

\* C1: every confidence calculate_probability returns is greater than 5 and
\* at most 100.
C1_ReturnedConfidenceInRange ==
    \A i \in 1..Len(prediction_df) :
        /\ FLess(ThresholdFloat, prediction_df[i].Probability)
        /\ FLeq(prediction_df[i].Probability, CapFloat)

\* A call with a non-empty selection returned a row at 100 and a row below.
C1_Witness ==
    /\ Scored
    /\ selected_symptoms # {}
    /\ \E i, j \in 1..Len(prediction_df) :
          /\ prediction_df[i].Probability = CapFloat
          /\ FLess(prediction_df[j].Probability, CapFloat)

\* C2: called with the empty selection, calculate_probability returns an
\* empty frame, and so would lines 38-63 without the early return.
C2_EmptySelectionEmptyResult ==
    (Scored /\ selected_symptoms = {}) =>
        /\ prediction_df = <<>>
        /\ \A out \in score_all(selected_symptoms) : out.df = prediction_df

\* calculate_probability was called with the empty set.
C2_Witness == Scored /\ selected_symptoms = {} /\ results = <<>>

\* C3: the frame returned has at most 5 rows, and at most as many rows as
\* there are diseases whose computed probability is greater than 5.
C3_LengthBounded ==
    /\ Len(prediction_df) <= TopN
    /\ Len(prediction_df) <=
          Cardinality({i \in 1..Len(results) :
                          FLess(ThresholdFloat, results[i].Probability)})

\* A call after which some diseases were kept and some were dropped.
C3_Witness ==
    /\ Scored
    /\ Len(prediction_df) >= 2
    /\ Len(prediction_df) < Len(results)

NonIncreasing(rows) ==
    \A i, j \in 1..Len(rows) :
        i < j => ~FLess(rows[i].Probability, rows[j].Probability)

\* The diseases of the rows, in the order of the rows.
Order(rows) == [i \in 1..Len(rows) |-> rows[i].Disease]

\* C4: no row of the frame returned has a lower probability than a later
\* row, and two calls with the same selection return the diseases in the
\* same order.
C4_SortedAndDeterministic ==
    [][Scored' =>
         /\ NonIncreasing(prediction_df')
         /\ (Scored /\ selected_symptoms' = selected_symptoms)
               => Order(prediction_df') = Order(prediction_df)]_vars

C6_UnknownSymptomsIgnored ==
    [][Scored' =>
         /\ raised' = "none"
         /\ (selected_symptoms' \cap ProfileSymptoms = {}) => prediction_df' = <<>>
         /\ (/\ Scored
             /\ selected_symptoms # {}
             /\ \E s \in (CallSymptoms \ ProfileSymptoms) \ selected_symptoms :
                   selected_symptoms' = selected_symptoms \cup {s})
            => prediction_df' = prediction_df]_vars

\* C7: a disease whose profile is wholly selected has probability exactly 100.
C7_FullProfileIsExactly100 ==
    (Scored /\ results # <<>>) =>
        \A d \in Diseases :
            Keys(ProfileOf(d)) \subseteq selected_symptoms => Confidence(d) = CapFloat

\* C8, as the spec states it: the lookup of a region that is not in the
\* catalog fails with UnknownRegion.
C8_UnknownRegionFails ==
    (called = "get" /\ current_part \notin DOMAIN BODY_PART_SYMPTOMS) =>
        raised = "UnknownRegion"

\* C8, amended: the lookup of a region that is not in the catalog raises
\* nothing and gives the empty list.
C8_UnknownRegionGivesEmptyList ==
    (called = "get" /\ current_part \notin DOMAIN BODY_PART_SYMPTOMS) =>
        /\ raised = "none"
        /\ symptoms_for_part = <<>>

\* A region that is not in the catalog was looked up.
C8_Witness == called = "get" /\ current_part \notin DOMAIN BODY_PART_SYMPTOMS

\* C9: a run of the script with region R on display and choices N makes the
\* selection (old selection minus (R minus N)) union N: inside R it is N,
\* outside R it is what it was.
C9_UpdateScopedToDisplayedRegion ==
    [][called' = "script" =>
         LET R == Range(symptoms_for_part')
             N == new_selections'
         IN  /\ selected_symptoms' = (selected_symptoms \ (R \ N)) \cup N
             /\ selected_symptoms' \cap R = N
             /\ selected_symptoms' \ R = selected_symptoms \ R]_vars

\* Some but not all symptoms of the region on display are selected, next to
\* symptoms of other regions.
C9_Witness ==
    /\ called = "script"
    /\ new_selections # {}
    /\ Range(symptoms_for_part) \ new_selections # {}
    /\ selected_symptoms \ Range(symptoms_for_part) # {}
    /\ selected_symptoms \cap Range(symptoms_for_part) = new_selections

\* C10: the user's selection holds only symptoms of BODY_PART_SYMPTOMS, so
\* never "Joint stiffness", and "Rheumatoid Arthritis" stays below 100.
C10_OnlyTaxonomySymptomsSelected ==
    /\ selected_symptoms \subseteq TaxonomySymptoms
    /\ "Joint stiffness" \notin selected_symptoms
    /\ results # <<>> => FLess(Confidence("Rheumatoid Arthritis"), CapFloat)

\* The user has selected the whole profile of another disease, which is at
\* 100, and "Rheumatoid Arthritis" has a probability too.
C10_Witness ==
    /\ results # <<>>
    /\ Confidence("Anxiety Disorder") = CapFloat
    /\ FLess(FZero, Confidence("Rheumatoid Arthritis"))

====
